---- MODULE Spec2Model ----
(***************************************************************************)
(* A model of someday.py: a curses front end to the calendar program       *)
(* `when`.  Text is modelled as sequences of one-character strings, so     *)
(* that the string operations of the code (strip, split, index, slices,    *)
(* regular expressions) are computed as the code computes them.            *)
(***************************************************************************)
EXTENDS Integers, Sequences, FiniteSets, TLC

(***************************************************************************)
(* Python values.  None, str and list are told apart by the field k.       *)
(***************************************************************************)
None == [k |-> "none"]

Str(s) == [k |-> "str", v |-> s]

List(items) == [k |-> "list", v |-> items]

IsNone(x) == x.k = "none"

IsStr(x) == x.k = "str"

IsList(x) == x.k = "list"

\* bool(x) for the values parse_expression returns
Truthy(x) == x.k # "none" /\ Len(x.v) > 0

\* x == "<c>" for a one-character string literal c
EqChar(x, c) == x.k = "str" /\ x.v = <<c>>

\* x[i] of Python, 0-based; the caller checks the length first
Item(x, i) == IF x.k = "str" THEN Str(<<x.v[i + 1]>>) ELSE x.v[i + 1]

(***************************************************************************)
(* str methods                                                             *)
(***************************************************************************)
Digit == {"0", "1", "2", "3", "4", "5", "6", "7", "8", "9"}

Space == {" "}

Letter ==
    {"a", "b", "c", "d", "e", "f", "g", "h", "i", "j", "k", "l", "m", "n", "o", "p",
     "q", "r", "s", "t", "u", "v", "w", "x", "y", "z", "N"}

\* [A-Za-z0-9_], with the one capital letter the program's own texts use
WordChar == Digit \cup Letter \cup {"_"}

\* text[a:b] of Python with 0 <= a, b (b may exceed the length)
Slice(s, a, b) == SubSeq(s, a + 1, IF b > Len(s) THEN Len(s) ELSE b)

From(s, a) == SubSeq(s, a + 1, Len(s))

RECURSIVE lstrip(_)
lstrip(s) == IF s # <<>> /\ Head(s) \in Space THEN lstrip(Tail(s)) ELSE s

RECURSIVE rstrip(_)
rstrip(s) ==
    IF s # <<>> /\ s[Len(s)] \in Space THEN rstrip(SubSeq(s, 1, Len(s) - 1)) ELSE s

strip(s) == lstrip(rstrip(s))

isdigit(s) == s # <<>> /\ \A i \in 1..Len(s) : s[i] \in Digit

\* op in text, for a non-empty op
Contains(s, op) ==
    \E i \in 1..(Len(s) - Len(op) + 1) : SubSeq(s, i, i + Len(op) - 1) = op

\* text.index(op): 0-based position of the leftmost occurrence
index_of(s, op) ==
    (CHOOSE i \in 1..(Len(s) - Len(op) + 1) :
        /\ SubSeq(s, i, i + Len(op) - 1) = op
        /\ \A h \in 1..(i - 1) : SubSeq(s, h, h + Len(op) - 1) # op) - 1

\* text.split(): the whitespace-separated tokens
RECURSIVE split(_)
split(s) ==
    LET t == lstrip(s)
        n == IF \E i \in 1..Len(t) : t[i] \in Space
             THEN (CHOOSE i \in 1..Len(t) :
                      t[i] \in Space /\ \A h \in 1..(i - 1) : t[h] \notin Space) - 1
             ELSE Len(t)
    IN  IF t = <<>> THEN <<>> ELSE <<SubSeq(t, 1, n)>> \o split(From(t, n))

(***************************************************************************)
(* Calendar._wellnested                                                    *)
(***************************************************************************)
RECURSIVE wellnested_from(_, _, _)
wellnested_from(text, i, n) ==
    IF i > Len(text) THEN n = 0
    ELSE IF n < 0 THEN FALSE
    ELSE IF text[i] = "(" THEN wellnested_from(text, i + 1, n + 1)
    ELSE IF text[i] = ")" THEN wellnested_from(text, i + 1, n - 1)
    ELSE wellnested_from(text, i + 1, n)

wellnested(text) == wellnested_from(text, 1, 0)

(***************************************************************************)
(* Calendar.parse_expression                                               *)
(***************************************************************************)
Operators ==
    << <<"|">>, <<"&">>, <<"!">>, <<"=">>, <<"!", "=">>, <<"<">>, <<">">>,
       <<"<", "=">>, <<">", "=">>, <<"-">>, <<"%">> >>

RECURSIVE parse_expression(_)
RECURSIVE parse_ops(_, _)
\* the for loop over the operators, from the k-th on, and the final return
parse_ops(text, k) ==
    IF k > Len(Operators)
    THEN IF ~Contains(text, <<" ">>) THEN Str(text) ELSE None
    ELSE LET op == Operators[k]
         IN  IF ~Contains(text, op) THEN parse_ops(text, k + 1)
             ELSE IF op = <<"!">>
             THEN LET tmp == parse_expression(From(text, 1))
                  IN  IF Truthy(tmp) THEN List(<<Str(op), tmp>>) ELSE None
             ELSE LET n == index_of(text, op)
                      tmp1 == parse_expression(Slice(text, 0, n))
                      tmp2 == parse_expression(From(text, n + 1))
                  IN  IF Truthy(tmp1) /\ Truthy(tmp2)
                      THEN List(<<Str(op), tmp1, tmp2>>)
                      ELSE parse_ops(text, k + 1)

parse_expression(raw) ==
    LET text == strip(raw)
    IN  IF ~wellnested(text) THEN None
        ELSE IF Len(text) > 2 /\ text[1] = "(" /\ text[Len(text)] = ")"
        THEN parse_expression(SubSeq(text, 2, Len(text) - 1))
        ELSE parse_ops(text, 1)

(***************************************************************************)
(* Calendar.get_date_expression and Calendar.get_event, on a source line   *)
(***************************************************************************)
\* re.match(r"^(.+?)\s*,", line): the shortest prefix of at least one
\* character that is followed by optional whitespace and a comma
DateEnds(line) ==
    {n \in 1..Len(line) :
        \E p \in (n + 1)..Len(line) :
            line[p] = "," /\ \A h \in (n + 1)..(p - 1) : line[h] \in Space}

get_date_expression_of(line) ==
    IF DateEnds(line) = {} THEN None
    ELSE LET n == CHOOSE m \in DateEnds(line) : \A h \in DateEnds(line) : m <= h
         IN  Str(lstrip(SubSeq(line, 1, n)))

\* re.search(r",\s*(.+?)$", line): the leftmost comma with text after it
EventCommas(line) == {p \in 1..(Len(line) - 1) : line[p] = ","}

get_event_of(line) ==
    IF EventCommas(line) = {} THEN None
    ELSE LET p == CHOOSE m \in EventCommas(line) : \A h \in EventCommas(line) : m <= h
             rest == From(line, p)
             grp == IF lstrip(rest) = <<>> THEN <<rest[Len(rest)]>> ELSE lstrip(rest)
         IN  Str(rstrip(grp))

(***************************************************************************)
(* Calendar._is_literal and Calendar.happens_only_once.  A predicate's     *)
(* result is "True", "False" or the name of the exception it raises.       *)
(***************************************************************************)
is_literal(text) ==
    IF ~IsNone(parse_expression(text)) THEN FALSE
    ELSE LET tmp == split(text)
         IN  IF Len(tmp) # 3 THEN FALSE
             ELSE \A i \in 1..Len(tmp) : tmp[i] # <<"*">>

\* x.isdigit(): a list has no such method
isdigit_of(x) ==
    IF IsList(x) THEN "AttributeError" ELSE IF isdigit(x.v) THEN "True" ELSE "False"

happens_only_once_of(date) ==
    IF IsNone(date) THEN "False"
    ELSE IF is_literal(date.v) THEN "True"
    ELSE LET tmp == parse_expression(date.v)
         IN  IF IsNone(tmp) THEN "False"
             ELSE IF Len(tmp.v) = 3
             THEN IF EqChar(Item(tmp, 0), "=")
                  THEN IF EqChar(Item(tmp, 1), "j") THEN isdigit_of(Item(tmp, 2))
                       ELSE IF EqChar(Item(tmp, 2), "j") THEN isdigit_of(Item(tmp, 1))
                       ELSE "False"
                  ELSE "False"
             ELSE "False"

(***************************************************************************)
(* JULIAN_THRESHOLD / YEARLY_THRESHOLD, _variable_to_replace, _search_var, *)
(* can_advance                                                             *)
(***************************************************************************)
\* the end (1-based, inclusive) of the match of \b<var>\s*>\s*(\d+)\b that
\* starts at position i, or 0 when there is none
ThresholdEnd(s, var, i) ==
    LET ws(a) == CHOOSE b \in a..(Len(s) + 1) :
                    /\ \A h \in a..(b - 1) : s[h] \in Space
                    /\ (b = Len(s) + 1 \/ s[b] \notin Space)
        dg(a) == CHOOSE b \in a..(Len(s) + 1) :
                    /\ \A h \in a..(b - 1) : s[h] \in Digit
                    /\ (b = Len(s) + 1 \/ s[b] \notin Digit)
        gt == ws(i + 1)
    IN  IF ~(s[i] = var /\ (i = 1 \/ s[i - 1] \notin WordChar)) THEN 0
        ELSE IF gt > Len(s) \/ s[gt] # ">" THEN 0
        ELSE LET d1 == ws(gt + 1)
                 d2 == dg(d1)
             IN  IF d2 = d1 THEN 0
                 ELSE IF d2 <= Len(s) /\ s[d2] \in WordChar THEN 0
                 ELSE d2 - 1

\* len(re.findall(THRESHOLD, date))
ThresholdCount(s, var) == Cardinality({i \in 1..Len(s) : ThresholdEnd(s, var, i) > 0})

has_julian_threshold(date) == ThresholdCount(date, "j") = 1

has_yearly_threshold(date) == ThresholdCount(date, "y") = 1

\* "j", "y" or "" for None
variable_to_replace(date) ==
    IF has_julian_threshold(date) THEN "j"
    ELSE IF has_yearly_threshold(date) THEN "y"
    ELSE ""

RECURSIVE search_var(_, _)
search_var(expr, var) ==
    IF /\ Len(expr.v) = 3
       /\ EqChar(Item(expr, 0), ">")
       /\ EqChar(Item(expr, 1), var)
       /\ isdigit_of(Item(expr, 2)) # "False"
    THEN isdigit_of(Item(expr, 2))
    ELSE IF Len(expr.v) = 0 THEN "IndexError"
    ELSE IF EqChar(Item(expr, 0), "&")
    THEN IF Len(expr.v) < 2 THEN "IndexError"
         ELSE LET a == search_var(Item(expr, 1), var)
              IN  IF a # "False" THEN a
                  ELSE IF Len(expr.v) < 3 THEN "IndexError"
                  ELSE search_var(Item(expr, 2), var)
    ELSE "False"

can_advance_of(date) ==
    IF IsNone(date) THEN "TypeError"
    ELSE LET var == variable_to_replace(date.v)
         IN  IF var = "" THEN "False"
             ELSE LET tmp == parse_expression(date.v)
                  IN  IF IsNone(tmp) THEN "False" ELSE search_var(tmp, var)

(***************************************************************************)
(* URL and can_open_url                                                    *)
(***************************************************************************)
Alnum == WordChar \ {"_"}

UrlHostChar == Alnum \cup {"-", "@", ":", "%", ".", "_", "+", "~", "#", "="}

UrlTldChar == Alnum \cup {"(", ")"}

\* re.search(URL, text) is not None
ContainsUrl(text) ==
    \E i \in 1..Len(text) :
        \E h \in {i + 7, i + 8} :
            /\ h <= Len(text)
            /\ SubSeq(text, i, h - 1) \in
                  {<<"h", "t", "t", "p", ":", "/", "/">>,
                   <<"h", "t", "t", "p", "s", ":", "/", "/">>}
            /\ \E dot \in (h + 1)..(Len(text) - 1) :
                  /\ text[dot] = "."
                  /\ \A m \in h..(dot - 1) : text[m] \in UrlHostChar
                  /\ \E e \in (dot + 1)..Len(text) :
                        /\ e - dot <= 6
                        /\ \A m \in (dot + 1)..e : text[m] \in UrlTldChar
                        /\ (text[e] \in WordChar) #
                              (e < Len(text) /\ text[e + 1] \in WordChar)

(***************************************************************************)
(* Numbers as text: "%s" % i and int(text)                                 *)
(***************************************************************************)
DigitChars == <<"0", "1", "2", "3", "4", "5", "6", "7", "8", "9">>

RECURSIVE Digits(_)
Digits(n) ==
    IF n < 10 THEN <<DigitChars[n + 1]>>
    ELSE Digits(n \div 10) \o <<DigitChars[(n % 10) + 1]>>

RECURSIVE ToInt(_)
ToInt(s) ==
    IF s = <<>> THEN 0
    ELSE 10 * ToInt(SubSeq(s, 1, Len(s) - 1))
            + ((CHOOSE d \in 1..10 : DigitChars[d] = s[Len(s)]) - 1)

(***************************************************************************)
(* The files: print(line, file=f) per line, and read().splitlines()        *)
(***************************************************************************)
RECURSIVE FileText(_)
FileText(lines) ==
    IF lines = <<>> THEN <<>>
    ELSE Head(lines) \o <<"\n">> \o FileText(Tail(lines))

RECURSIVE splitlines(_)
splitlines(text) ==
    IF text = <<>> THEN <<>>
    ELSE IF \E i \in 1..Len(text) : text[i] = "\n"
    THEN LET n == CHOOSE i \in 1..Len(text) :
                     text[i] = "\n" /\ \A h \in 1..(i - 1) : text[h] # "\n"
         IN  <<SubSeq(text, 1, n - 1)>> \o splitlines(From(text, n))
    ELSE <<text>>

(***************************************************************************)
(* The external program `when`, as far as someday.py relies on it.  It is  *)
(* given the numbered copy of the calendar and a window of days and prints *)
(* one line per occurrence of an entry in the window, by day and then by   *)
(* position in the file; an entry with a malformed date makes it print a   *)
(* line that starts with "*".                                              *)
(***************************************************************************)
\* the ordinal of the current day, as `when j` reports it
Today == 5

\* the output of date "+%Y %m %d" for the day j
YMD(j) == <<"2", "0", "2", "5", " ", "0", "1", " ", "0">> \o Digits(j)

\* the year in the listing of an occurrence
ListingYear(day) == <<"2", "0", "2", "5">>

WhenInert(pl) == strip(pl) = <<>> \/ Head(lstrip(pl)) = "#"

WhenHasComma(pl) == \E i \in 1..Len(pl) : pl[i] = ","

WhenComma(pl) == CHOOSE i \in 1..Len(pl) : pl[i] = "," /\ \A h \in 1..(i - 1) : pl[h] # ","

WhenDate(pl) == strip(SubSeq(pl, 1, WhenComma(pl) - 1))

WhenText(pl) == lstrip(From(pl, WhenComma(pl)))

RECURSIVE WhenDepthOk(_, _)
WhenDepthOk(s, n) ==
    IF s = <<>> THEN n = 0
    ELSE IF Head(s) = "(" THEN WhenDepthOk(Tail(s), n + 1)
    ELSE IF Head(s) = ")" THEN n > 0 /\ WhenDepthOk(Tail(s), n - 1)
    ELSE WhenDepthOk(Tail(s), n)

WhenMalformed(pl) ==
    /\ ~WhenInert(pl)
    /\ \/ ~WhenHasComma(pl)
       \/ WhenDate(pl) = <<>>
       \/ ~WhenDepthOk(WhenDate(pl), 0)
       \/ WhenDate(pl) = <<"N", "o", "n", "e">>

NoSpaces(s) == SelectSeq(s, LAMBDA c : c \notin Space)

\* the entry with date expression `date` occurs on `day`
WhenOccurs(date, day) ==
    LET d == NoSpaces(date)
    IN  IF \E j \in 0..9 : date = YMD(j) THEN date = YMD(day)
        ELSE IF Len(d) > 2 /\ SubSeq(d, 1, 2) = <<"j", "=">> /\ isdigit(From(d, 2))
        THEN day = ToInt(From(d, 2))
        ELSE IF Len(d) > 2 /\ SubSeq(d, 1, 2) = <<"j", ">">> /\ isdigit(From(d, 2))
        THEN day > ToInt(From(d, 2))
        ELSE day = Today

\* the days listed: --past and --future are offsets from today
WhenFirstDay(past) == IF past = <<>> THEN Today ELSE Today + past[1]

WhenLastDay(future) == IF future = <<>> THEN Today ELSE Today + future[1]

OutLine(day, tail) == [star |-> FALSE, day |-> day, tail |-> tail]

StarLine == [star |-> TRUE, day |-> 0, tail |-> <<"*">>]

\* the occurrences from day d, entry i on
RECURSIVE WhenItems(_, _, _, _)
WhenItems(proxy, d, last, i) ==
    IF d > last THEN <<>>
    ELSE IF i > Len(proxy) THEN WhenItems(proxy, d + 1, last, 1)
    ELSE IF /\ ~WhenInert(proxy[i])
            /\ ~WhenMalformed(proxy[i])
            /\ WhenOccurs(WhenDate(proxy[i]), d)
    THEN <<OutLine(d, WhenText(proxy[i]))>> \o WhenItems(proxy, d, last, i + 1)
    ELSE WhenItems(proxy, d, last, i + 1)

\* stdout of  when --calendar=<proxy> --noheader --wrap=0 [--past] [--future]
WhenStdout(proxy, past, future, star_first) ==
    LET items == WhenItems(proxy, WhenFirstDay(past), WhenLastDay(future), 1)
    IN  IF \E i \in 1..Len(proxy) : WhenMalformed(proxy[i])
        THEN IF star_first THEN <<StarLine>> \o items ELSE items \o <<StarLine>>
        ELSE items

(***************************************************************************)
(* class Calendar.  The object is a record with the fields of the class;   *)
(* a view is a record past, future, search_pattern where <<>> stands for   *)
(* None and <<n>> for the number n.                                        *)
(***************************************************************************)
View(past, future, search_pattern) ==
    [past |-> past, future |-> future, search_pattern |-> search_pattern]

\* what the external program does in one run: whether it can be launched,
\* whether it exits with status 0, and where it prints the "*" line
OracleRuns ==
    {[run |-> "ok", star_first |-> TRUE], [run |-> "ok", star_first |-> FALSE],
     [run |-> "exit_nonzero", star_first |-> TRUE],
     [run |-> "not_found", star_first |-> TRUE]}

\* the numbered copy written to the proxy calendar
Proxy(lines) ==
    [i \in 1..Len(lines) |->
        IF strip(lines[i]) # <<>> THEN lines[i] \o <<"-">> \o Digits(i - 1)
        ELSE lines[i]]

\* the position of the "-" of a final "-<digits>", or 0
SuffixPos(tail) ==
    IF \E p \in 1..(Len(tail) - 1) : tail[p] = "-" /\ isdigit(From(tail, p))
    THEN CHOOSE p \in 1..(Len(tail) - 1) : tail[p] = "-" /\ isdigit(From(tail, p))
    ELSE 0

Lower(s) == [i \in 1..Len(s) |-> IF s[i] = "N" THEN "n" ELSE s[i]]

\* Calendar._search on one output line: "True", "False", or "SystemExit"
\* when the line has no description followed by "-<digits>"
search_line(pattern, out) ==
    IF out.star \/ SuffixPos(out.tail) < 2 THEN "SystemExit"
    ELSE IF Contains(Lower(SubSeq(out.tail, 1, SuffixPos(out.tail) - 1)), Lower(pattern))
    THEN "True"
    ELSE "False"

\* what the external program printed, for the record of the call
StarPlace(out) ==
    IF \A i \in 1..Len(out) : ~out[i].star THEN "ok"
    ELSE IF out[1].star THEN "star_first"
    ELSE "star_later"

\* Calendar._update_view after subprocess.run, for the lines `out` the
\* external program printed: exc is the exception raised ("" for none); the
\* fields shown_items and line_numbers are assigned only when none is
parsed_view(cal, env, out) ==
    LET pattern == cal.view_mode.search_pattern
        kept == IF pattern = <<>> THEN out
                ELSE SelectSeq(out, LAMBDA x : search_line(pattern, x) = "True")
        found == SelectSeq(kept, LAMBDA x : ~x.star /\ SuffixPos(x.tail) > 0)
        oracle == IF env.run = "ok" THEN StarPlace(out) ELSE env.run
    IN  IF env.run = "not_found"
        THEN [exc |-> "FileNotFoundError", oracle |-> oracle, cal |-> cal]
        ELSE IF env.run = "exit_nonzero"
        THEN [exc |-> "InternalException", oracle |-> oracle, cal |-> cal]
        ELSE IF out # <<>> /\ out[1].star
        THEN [exc |-> "InternalException", oracle |-> oracle, cal |-> cal]
        ELSE IF pattern # <<>>
                /\ \E i \in 1..Len(out) : search_line(pattern, out[i]) = "SystemExit"
        THEN [exc |-> "SystemExit", oracle |-> oracle, cal |-> cal]
        ELSE [exc |-> "", oracle |-> oracle,
              cal |-> [cal EXCEPT
                 !.shown_items =
                    [i \in 1..Len(found) |->
                        [day |-> found[i].day,
                         text |-> SubSeq(found[i].tail, 1, SuffixPos(found[i].tail) - 1)]],
                 !.line_numbers =
                    [i \in 1..Len(found) |->
                        ToInt(From(found[i].tail, SuffixPos(found[i].tail)))]]]

\* Calendar._update_view: the run of the external program, then the above
update_view(cal, env) ==
    parsed_view(cal, env,
                WhenStdout(Proxy(cal.calendar_lines), cal.view_mode.past,
                           cal.view_mode.future, env.star_first))

\* set_view_mode that does not call _update_view
set_view_mode_stale(cal, mode, env) ==
    [exc |-> "", oracle |-> "ok", cal |-> [cal EXCEPT !.view_mode = mode]]

\* Calendar.set_view_mode
set_view_mode(cal, mode, env) == update_view([cal EXCEPT !.view_mode = mode], env)

\* Calendar.get_source_line
get_source_line(cal, index) == cal.calendar_lines[cal.line_numbers[index + 1] + 1]

get_date_expression(cal, index) == get_date_expression_of(get_source_line(cal, index))

get_event(cal, index) == get_event_of(get_source_line(cal, index))

happens_only_once(cal, index) == happens_only_once_of(get_date_expression(cal, index))

\* del lines[n] that removes the last line whatever n is
DelAt_last(lines, n) == SubSeq(lines, 1, Len(lines) - 1)

\* del lines[n] and lines.insert(n, value), n 0-based
DelAt(lines, n) == SubSeq(lines, 1, n) \o SubSeq(lines, n + 2, Len(lines))

InsertAt(lines, n, value) ==
    SubSeq(lines, 1, n) \o <<value>> \o SubSeq(lines, n + 1, Len(lines))

\* the try/except of the three mutators around _update_view, for the
\* changed object `tried` and the except clause's object `restored`: ret is
\* "True", "False" or the name of an exception the mutator does not catch
validated(r, tried, restored, op) ==
    IF r.exc = ""
    THEN [cal |-> [r.cal EXCEPT !.modified = TRUE],
          call |-> [op |-> op, oracle |-> r.oracle, view_exc |-> r.exc, ret |-> "True"]]
    ELSE IF r.exc = "InternalException"
    THEN [cal |-> restored,
          call |-> [op |-> op, oracle |-> r.oracle, view_exc |-> r.exc, ret |-> "False"]]
    ELSE [cal |-> tried,
          call |-> [op |-> op, oracle |-> r.oracle, view_exc |-> r.exc, ret |-> r.exc]]

validate(tried, restored, env, op) ==
    validated(update_view(tried, env), tried, restored, op)

\* delete_source_line whose except clause does not put the line back
delete_source_line_unrestored(cal, index, env) ==
    LET line_number == cal.line_numbers[index + 1]
        tried == [cal EXCEPT !.calendar_lines = DelAt(@, line_number)]
    IN  validate(tried, tried, env, "delete_source_line")

\* Calendar.delete_source_line
delete_source_line(cal, index, env) ==
    LET line_number == cal.line_numbers[index + 1]
        old_value == cal.calendar_lines[line_number + 1]
        tried == [cal EXCEPT !.calendar_lines = DelAt(@, line_number)]
    IN  validate(tried,
                 [tried EXCEPT !.calendar_lines = InsertAt(@, line_number, old_value)],
                 env, "delete_source_line")

\* update_source_line without its test of a blank text
update_source_line_unchecked(cal, index, what, env) ==
    LET line_number == cal.line_numbers[index + 1]
        old_value == cal.calendar_lines[line_number + 1]
        tried == [cal EXCEPT !.calendar_lines[line_number + 1] = strip(what)]
    IN  validate(tried,
                 [tried EXCEPT !.calendar_lines[line_number + 1] = old_value],
                 env, "update_source_line")

\* Calendar.update_source_line
update_source_line(cal, index, what, env) ==
    IF strip(what) = <<>> THEN delete_source_line(cal, index, env)
    ELSE LET line_number == cal.line_numbers[index + 1]
             old_value == cal.calendar_lines[line_number + 1]
             tried == [cal EXCEPT !.calendar_lines[line_number + 1] = strip(what)]
         IN  validate(tried,
                      [tried EXCEPT !.calendar_lines[line_number + 1] = old_value],
                      env, "update_source_line")

\* add_source_line whose except clause keeps the appended line
add_source_line_kept(cal, what, env) ==
    LET tried == [cal EXCEPT !.calendar_lines = Append(@, what)]
    IN  validate(tried, tried, env, "add_source_line")

\* add_source_line that puts the new line before the others
add_source_line_first(cal, what, env) ==
    LET tried == [cal EXCEPT !.calendar_lines = <<what>> \o @]
    IN  validate(tried, [tried EXCEPT !.calendar_lines = Tail(@)], env,
                 "add_source_line")

\* Calendar.add_source_line
add_source_line(cal, what, env) ==
    LET tried == [cal EXCEPT !.calendar_lines = Append(@, what)]
    IN  validate(tried,
                 [tried EXCEPT !.calendar_lines = SubSeq(@, 1, Len(@) - 1)],
                 env, "add_source_line")

\* conflicting_changes that never sees a conflict
conflicting_changes_never(cal, mtime) == FALSE

\* Calendar.conflicting_changes, for the file's current modification time
conflicting_changes(cal, mtime) == cal.last_modified # mtime

\* write_calendar that copies the file to the backup after writing it
write_calendar_backup_last(cal, file) ==
    [backup_file |-> FileText(cal.calendar_lines),
     calendar_file |-> FileText(cal.calendar_lines),
     cal |-> [cal EXCEPT !.created_backup = TRUE]]

\* Calendar.write_calendar: the new backup file, calendar file and object
write_calendar(cal, file) ==
    [backup_file |-> file,
     calendar_file |-> FileText(cal.calendar_lines),
     cal |-> [cal EXCEPT !.created_backup = TRUE]]

(***************************************************************************)
(* class List: items, first_item, selected_row, height                     *)
(***************************************************************************)
InitList == [items |-> <<>>, first_item |-> 0, selected_row |-> 0, height |-> 0]

top(l) == [l EXCEPT !.selected_row = 0, !.first_item = 0]

up(l) ==
    IF l.items = <<>> THEN l
    ELSE IF l.selected_row > 0 THEN [l EXCEPT !.selected_row = @ - 1]
    ELSE IF l.first_item > 0 THEN [l EXCEPT !.first_item = @ - 1]
    ELSE l

\* down that never scrolls
down_row_only(l) ==
    IF l.items = <<>> THEN l
    ELSE IF l.first_item + l.selected_row < Len(l.items) - 1
    THEN [l EXCEPT !.selected_row = @ + 1]
    ELSE l

\* List.down
down(l) ==
    IF l.items = <<>> THEN l
    ELSE IF l.first_item + l.selected_row < Len(l.items) - 1
    THEN IF l.selected_row < l.height - 1
         THEN [l EXCEPT !.selected_row = @ + 1]
         ELSE [l EXCEPT !.first_item = @ + 1]
    ELSE l

RECURSIVE list_adjust_selected_item(_)
\* _adjust_selected_item whose loop stops one item late
list_adjust_selected_item_late(l) ==
    IF l.items # <<>>
    THEN IF l.first_item + l.selected_row > Len(l.items)
         THEN list_adjust_selected_item(up(l))
         ELSE l
    ELSE top(l)

\* List._adjust_selected_item
list_adjust_selected_item(l) ==
    IF l.items # <<>>
    THEN IF l.first_item + l.selected_row >= Len(l.items)
         THEN list_adjust_selected_item(up(l))
         ELSE l
    ELSE top(l)

\* List.show, without the drawing
list_show(l, items, height) ==
    list_adjust_selected_item([l EXCEPT !.items = items, !.height = height])

\* List.selected_item: the list after the call and the value returned
selected_item(l) ==
    LET a == list_adjust_selected_item(l)
    IN  [list |-> a, value |-> a.first_item + a.selected_row]

(***************************************************************************)
(* class Menu: menu (the names of the MenuItems, which name their          *)
(* functions), key_bindings, selected_index (-1 for None) and              *)
(* selected_menu_item ("" for None)                                        *)
(***************************************************************************)
InitMenu ==
    [menu |-> <<>>, key_bindings |-> <<>>, selected_index |-> -1,
     selected_menu_item |-> ""]

\* the key field of the MenuItems of recreate_menu
ItemKeys(name) ==
    CASE name = "Edit" -> {"e"}
      [] name = "Done/delete" -> {"d", "KEY_DC"}
      [] name = "Reschedule" -> {"r"}
      [] name = "Comment" -> {"c"}
      [] name = "Advance" -> {"a"}
      [] name = "Browse url" -> {"b"}
      [] name = "dUplicate" -> {"u"}
      [] name = "New" -> {"n"}
      [] name = "View" -> {"v"}
      [] name = "Monthly cal." -> {"m"}

\* key.upper() of a one-letter key
Upper(key) ==
    CASE key = "e" -> "E" [] key = "d" -> "D" [] key = "r" -> "R"
      [] key = "c" -> "C" [] key = "a" -> "A" [] key = "b" -> "B"
      [] key = "u" -> "U" [] key = "n" -> "N" [] key = "v" -> "V"
      [] key = "m" -> "M" [] OTHER -> key

\* clear that keeps the key bindings
clear_items_only(m) == [m EXCEPT !.menu = <<>>, !.selected_index = -1]

\* Menu.clear
clear(m) == [m EXCEPT !.menu = <<>>, !.key_bindings = <<>>, !.selected_index = -1]

\* add that binds only the lower-case keys
add_lower_only(m, name) ==
    [m EXCEPT
        !.menu = Append(@, name),
        !.key_bindings =
            [k \in (DOMAIN @) \cup ItemKeys(name) |->
                IF k \in ItemKeys(name) THEN name ELSE @[k]]]

\* Menu.add
add(m, name) ==
    LET keys == ItemKeys(name) \cup {Upper(k) : k \in ItemKeys(name)}
    IN  [m EXCEPT
            !.menu = Append(@, name),
            !.key_bindings =
                [k \in (DOMAIN @) \cup keys |-> IF k \in keys THEN name ELSE @[k]]]

\* _adjust_selected_item that always goes back to the first item
menu_adjust_selected_item_first(m) ==
    [m EXCEPT !.selected_index = 0, !.selected_menu_item = m.menu[1]]

\* Menu._adjust_selected_item
menu_adjust_selected_item(m) ==
    IF m.selected_menu_item # "" /\ \E i \in 1..Len(m.menu) : m.menu[i] = m.selected_menu_item
    THEN [m EXCEPT !.selected_index =
            (CHOOSE i \in 1..Len(m.menu) :
                /\ m.menu[i] = m.selected_menu_item
                /\ \A h \in 1..(i - 1) : m.menu[h] # m.selected_menu_item) - 1]
    ELSE [m EXCEPT !.selected_index = 0, !.selected_menu_item = m.menu[1]]

\* Menu.show, without the drawing
menu_show(m) == IF m.menu = <<>> THEN m ELSE menu_adjust_selected_item(m)

\* Menu.get_selected_item: the name of the item, "" for None
get_selected_item(m, key) ==
    IF key = "SPACE" THEN m.selected_menu_item
    ELSE IF key \in DOMAIN m.key_bindings THEN m.key_bindings[key]
    ELSE ""

left(m) ==
    LET i == IF m.selected_index > 0 THEN m.selected_index - 1 ELSE m.selected_index
    IN  [m EXCEPT !.selected_index = i, !.selected_menu_item = m.menu[i + 1]]

\* right that goes round to the first item
right_wraps(m) ==
    LET i == IF m.selected_index < Len(m.menu) - 1 THEN m.selected_index + 1 ELSE 0
    IN  [m EXCEPT !.selected_index = i, !.selected_menu_item = m.menu[i + 1]]

\* Menu.right
right(m) ==
    LET i == IF m.selected_index < Len(m.menu) - 1 THEN m.selected_index + 1
             ELSE m.selected_index
    IN  [m EXCEPT !.selected_index = i, !.selected_menu_item = m.menu[i + 1]]

(***************************************************************************)
(* The actions on the calendar and their can_... predicates                *)
(***************************************************************************)
can_delete(cal, index) == happens_only_once(cal, index)

can_reschedule(cal, index) == happens_only_once(cal, index)

\* can_comment that allows every item
can_comment_always(cal, index) == "True"

can_comment(cal, index) == happens_only_once(cal, index)

can_advance(cal, index) == can_advance_of(get_date_expression(cal, index))

can_open_url(cal, index) ==
    IF ContainsUrl(cal.shown_items[index + 1].text) THEN "True" ELSE "False"

\* "%s" % x
Format(x) == IF IsNone(x) THEN <<"N", "o", "n", "e">> ELSE x.v

\* the record of a call that raised before it reached the calendar
Raised(op, exc) == [op |-> op, oracle |-> "", view_exc |-> "", ret |-> exc]

delete(cal, index, env) == delete_source_line(cal, index, env)

comment(cal, index, env) ==
    update_source_line(cal, index, <<"#">> \o get_source_line(cal, index), env)

\* re.sub(THRESHOLD, repl, s), from position i on
RECURSIVE re_sub(_, _, _, _)
re_sub(s, var, repl, i) ==
    IF i > Len(s) THEN <<>>
    ELSE IF ThresholdEnd(s, var, i) > 0
    THEN repl \o re_sub(s, var, repl, ThresholdEnd(s, var, i) + 1)
    ELSE <<s[i]>> \o re_sub(s, var, repl, i + 1)

\* advance; julian_ok: the run of `when j --now=...` succeeds
advance(cal, index, env, julian_ok) ==
    LET item == cal.shown_items[index + 1]
        date == get_date_expression(cal, index)
        var == variable_to_replace(date.v)
        line == get_source_line(cal, index)
        repl == IF var = "j" THEN Digits(item.day) ELSE ListingYear(item.day)
    IN  IF IsNone(date) THEN [cal |-> cal, call |-> Raised("advance", "TypeError")]
        ELSE IF var = "" THEN [cal |-> cal, call |-> Raised("advance", "")]
        ELSE IF var = "j" /\ ~julian_ok
        THEN [cal |-> cal, call |-> Raised("advance", "InternalException")]
        ELSE update_source_line(cal, index, re_sub(line, var, <<var, ">">> \o repl, 1), env)

duplicate(cal, index, env) ==
    LET date == get_date_expression(cal, index)
        what == get_event(cal, index)
    IN  IF IsNone(date) \/ IsNone(what)
        THEN [cal |-> cal, call |-> Raised("duplicate", "AttributeError")]
        ELSE add_source_line(cal,
                strip(date.v) \o <<" ", ",", " ", "[", "+", "]", " ">> \o strip(what.v), env)

RECURSIVE add_all(_, _)
\* the calls of menu.add without the last one
add_all_but_last(m, names) ==
    IF Len(names) <= 1 THEN m ELSE add_all(add(m, Head(names)), Tail(names))

\* the calls of menu.add of recreate_menu, in order
add_all(m, names) == IF names = <<>> THEN m ELSE add_all(add(m, Head(names)), Tail(names))

If(cond, names) == IF cond = "True" THEN names ELSE <<>>

\* recreate_menu: the menu, the list (selected_item adjusts it) and the
\* exception a can_... predicate raised ("" for none)
\* for the results of the can_... predicates on the selected item
menu_items(m, cal, l, sel, deletes, reschedules, comments, advances, opens) ==
    LET first == <<"Edit">>
        once == first
                \o If(deletes, <<"Done/delete">>)
                \o If(reschedules, <<"Reschedule">>)
                \o If(comments, <<"Comment">>)
        all == once
               \o If(advances, <<"Advance">>)
               \o If(opens, <<"Browse url">>)
               \o <<"dUplicate">>
        rest == <<"New", "View", "Monthly cal.">>
    IN  IF cal.shown_items = <<>>
        THEN [menu |-> add_all(clear(m), rest), list |-> l, exc |-> ""]
        ELSE IF deletes \notin {"True", "False"}
        THEN [menu |-> add_all(clear(m), first), list |-> sel.list, exc |-> deletes]
        ELSE IF advances \notin {"True", "False"}
        THEN [menu |-> add_all(clear(m), once), list |-> sel.list, exc |-> advances]
        ELSE [menu |-> add_all(clear(m), all \o rest), list |-> sel.list, exc |-> ""]

selected_menu(m, cal, l, sel) ==
    menu_items(m, cal, l, sel, can_delete(cal, sel.value), can_reschedule(cal, sel.value),
               can_comment(cal, sel.value), can_advance(cal, sel.value),
               can_open_url(cal, sel.value))

recreate_menu(m, cal, l) == selected_menu(m, cal, l, selected_item(l))

(***************************************************************************)
(* The bounds of the model, the calendar files it starts from and the      *)
(* texts the user types                                                    *)
(***************************************************************************)
\* new and duplicate are tried only while the calendar has fewer lines
MaxLines == 3

\* the rows of the list are 1..MaxHeight
MaxHeight == 2

\* how often another process rewrites the calendar file
MaxTouches == 1

\* the changes to the calendar made in one run
MaxEdits == 1

LOnce == <<"j", "=", "5", ",", "a">>

LAdv == <<"j", ">", "4", ",", "b">>

LRaise == <<"j", "=", "9", "-", "3", ",", "c">>

LBad == <<"(", "j", ">", "5", ",", "d">>

LLater == <<"j", "=", "6", ",", "a">>

LUrl == <<"j", "=", "5", ",", "h", "t", "t", "p", ":", "/", "/", "a", ".", "b">>

InitFiles == {FileText(<<LOnce, LAdv>>), FileText(<<LUrl, LRaise>>)}

\* the lines typed at the prompt of edit, besides the unchanged line
EditInputs == {LBad, LLater, <<>>}

\* the descriptions typed at the first prompt of new
NewTexts == {<<"a">>}

\* the days my_date_input returns
DayChoices == {Today + 1}

DefaultView == View(<<>>, <<>>, <<>>)

\* the views choose_view_mode can return
ViewChoices == {DefaultView, View(<<0>>, <<1>>, <<"a">>)}

\* the keys of the menu, the space bar and a key bound to nothing
MenuKeys ==
    {"e", "E", "d", "D", "KEY_DC", "r", "R", "c", "C", "a", "A", "b", "B", "u", "U",
     "n", "N", "v", "V", "m", "M", "SPACE", "x"}

(***************************************************************************)
(* The state                                                               *)
(***************************************************************************)
VARIABLES
    calendar,       \* the Calendar object
    item_list,      \* the List object of main
    menu,           \* the Menu object of main
    pc,             \* where the program is
    exit_how,       \* "" while it runs; then how the process ended
    calendar_file,  \* the text of the calendar file
    calendar_mtime, \* its modification time
    backup_file,    \* the text of the backup file
    proxy_exists,   \* the proxy calendar exists
    prompt,         \* the local variables of edit, reschedule and new
    last_call,      \* the last call of a mutator in this iteration
    invoked,        \* the function main called in this iteration
    edits,          \* the number of changes made to the calendar
    probe,          \* the text a function is applied to on its own
    probed,         \* what the function applied to probe gave
    declined        \* whether the user has declined to overwrite the file

vars ==
    <<calendar, item_list, menu, pc, exit_how, calendar_file, calendar_mtime,
      backup_file, proxy_exists, prompt, last_call, invoked, edits, probe, probed,
      declined>>

NoCall == [op |-> "", oracle |-> "", view_exc |-> "", ret |-> ""]

\* before: the lines of the calendar when the prompt began
NoPrompt == [selected_item |-> 0, line |-> <<>>, what |-> <<>>, before |-> <<>>]

NotInvoked == [func |-> "", selected_item |-> 0]

\* no function has been applied on its own
NoProbe == [op |-> "", ret |-> "", lines |-> <<>>, tree |-> None]

\* Calendar.__init__ for the text and the modification time of the file
NewCalendar(text, mtime) ==
    [calendar_lines |-> splitlines(text), line_numbers |-> <<>>, shown_items |-> <<>>,
     modified |-> FALSE, created_backup |-> FALSE, view_mode |-> DefaultView,
     last_modified |-> mtime]

Init ==
    /\ calendar_file \in InitFiles
    /\ calendar_mtime = 0
    /\ proxy_exists \in BOOLEAN
    /\ calendar = NewCalendar(<<>>, 0)
    /\ item_list = InitList
    /\ menu = InitMenu
    /\ pc = "start"
    /\ exit_how = ""
    /\ backup_file = <<>>
    /\ prompt = NoPrompt
    /\ last_call = NoCall
    /\ invoked = NotInvoked
    /\ edits = 0
    /\ declined = FALSE
    /\ probe = <<>>
    /\ probed = NoProbe

\* the process ends inside the try of __main__: finally removes the proxy
Exit(how) == pc' = "exited" /\ exit_how' = how /\ proxy_exists' = FALSE

\* the next iteration of the loop of main
Loop == pc' = "render" /\ exit_how' = exit_how /\ proxy_exists' = proxy_exists

\* after a call r of a mutator: on to `done` when it returned True, to
\* `again` when it returned False, out when it raised
After(r, done, again) ==
    /\ calendar' = r.cal
    /\ last_call' = r.call
    /\ edits' = IF r.call.ret = "True" THEN edits + 1 ELSE edits
    /\ UNCHANGED <<probe, probed, declined>>
    /\ IF r.call.ret \in {"True", "", "False"}
       THEN /\ pc' = IF r.call.ret = "False" THEN again ELSE done
            /\ exit_how' = exit_how
            /\ proxy_exists' = proxy_exists
       ELSE Exit(r.call.ret)

\* the same inside edit, reschedule and new, which loop until the call
\* returns True
AfterPrompt(r, again) ==
    /\ After(r, "render", again)
    /\ prompt' = IF r.call.ret = "False" THEN prompt ELSE NoPrompt

(***************************************************************************)
(* __main__ up to the first call of main                                   *)
(***************************************************************************)
\* after the call r of set_view_mode before the try of __main__
Viewed(r) ==
    /\ calendar' = r.cal
    /\ last_call' = [op |-> "set_view_mode", oracle |-> r.oracle,
                     view_exc |-> r.exc, ret |-> r.exc]
    /\ pc' = IF r.exc = "" THEN "render" ELSE "exited"
    /\ exit_how' = r.exc

Start ==
    /\ pc = "start"
    /\ UNCHANGED <<edits, probe, probed, declined>>
    /\ UNCHANGED <<item_list, menu, calendar_file, calendar_mtime, backup_file,
                   prompt, invoked>>
    /\ IF proxy_exists
       THEN /\ pc' = "exited"
            /\ exit_how' = "SystemExit"
            /\ UNCHANGED <<calendar, proxy_exists, last_call>>
       ELSE /\ proxy_exists' = TRUE
            /\ \E env \in OracleRuns :
                  Viewed(set_view_mode(NewCalendar(calendar_file, calendar_mtime),
                                       DefaultView, env))

(***************************************************************************)
(* main: one iteration up to getch                                         *)
(***************************************************************************)
\* after the call r of recreate_menu: menu.show() and on to getch, unless a
\* can_... predicate raised
Recreated(r) ==
    /\ item_list' = r.list
    /\ IF r.exc = ""
       THEN /\ menu' = menu_show(r.menu)
            /\ last_call' = NoCall
            /\ pc' = "getch"
            /\ UNCHANGED <<exit_how, proxy_exists>>
       ELSE /\ menu' = r.menu
            /\ last_call' = Raised("recreate_menu", r.exc)
            /\ Exit(r.exc)

Render ==
    /\ pc = "render"
    /\ UNCHANGED <<edits, probe, probed, declined>>
    /\ invoked' = NotInvoked
    /\ \E height \in 1..MaxHeight :
          Recreated(recreate_menu(menu, calendar,
                                  list_show(item_list, calendar.shown_items, height)))
    /\ UNCHANGED <<calendar, calendar_file, calendar_mtime, backup_file, prompt>>

(***************************************************************************)
(* main: the key read by getch and what it is dispatched to                *)
(***************************************************************************)
\* the function main calls for a key other than the cursor keys, q and Enter
Resolves(func) == \E key \in MenuKeys : get_selected_item(menu, key) = func

\* main is about to call func(calendar, selected_item)
Calls(func) == pc = "getch" /\ Resolves(func) /\ calendar.shown_items # <<>>

\* the run may still change the calendar
MayEdit == edits < MaxEdits

Selected == selected_item(item_list).value

Invoke(func) ==
    /\ invoked' = [func |-> func, selected_item |-> Selected]
    /\ item_list' = selected_item(item_list).list

\* a window resize, Enter (expand), a key bound to nothing, and a function
\* of the selected item when no item is shown: nothing changes
KeyIdle ==
    /\ pc = "getch"
    /\ UNCHANGED <<edits, probe, probed, declined>>
    /\ Loop
    /\ UNCHANGED <<calendar, item_list, menu, calendar_file, calendar_mtime,
                   backup_file, prompt, last_call, invoked>>

KeyUp ==
    /\ pc = "getch"
    /\ UNCHANGED <<edits, probe, probed, declined>>
    /\ item_list' = up(item_list)
    /\ Loop
    /\ UNCHANGED <<calendar, menu, calendar_file, calendar_mtime, backup_file,
                   prompt, last_call, invoked>>

KeyDown ==
    /\ pc = "getch"
    /\ UNCHANGED <<edits, probe, probed, declined>>
    /\ item_list' = down(item_list)
    /\ Loop
    /\ UNCHANGED <<calendar, menu, calendar_file, calendar_mtime, backup_file,
                   prompt, last_call, invoked>>

KeyLeft ==
    /\ pc = "getch"
    /\ UNCHANGED <<edits, probe, probed, declined>>
    /\ menu' = left(menu)
    /\ Loop
    /\ UNCHANGED <<calendar, item_list, calendar_file, calendar_mtime, backup_file,
                   prompt, last_call, invoked>>

KeyRight ==
    /\ pc = "getch"
    /\ UNCHANGED <<edits, probe, probed, declined>>
    /\ menu' = right(menu)
    /\ Loop
    /\ UNCHANGED <<calendar, item_list, calendar_file, calendar_mtime, backup_file,
                   prompt, last_call, invoked>>

\* Ctrl-C at getch: KeyboardInterrupt reaches __main__
KeyInterrupt ==
    /\ pc = "getch"
    /\ UNCHANGED <<edits, probe, probed, declined>>
    /\ Exit("KeyboardInterrupt")
    /\ UNCHANGED <<calendar, item_list, menu, calendar_file, calendar_mtime,
                   backup_file, prompt, last_call, invoked>>

\* q: main returns to the loop of __main__
KeyQuit ==
    /\ pc = "getch"
    /\ UNCHANGED <<edits, probe, probed, declined>>
    /\ UNCHANGED <<item_list, menu, prompt, last_call, invoked>>
    /\ IF ~calendar.modified
       THEN /\ Exit("quit")
            /\ UNCHANGED <<calendar, calendar_file, calendar_mtime, backup_file>>
       ELSE IF conflicting_changes(calendar, calendar_mtime)
       THEN /\ pc' = "confirm"
            /\ UNCHANGED <<calendar, calendar_file, calendar_mtime, backup_file,
                           exit_how, proxy_exists>>
       ELSE LET w == write_calendar(calendar, calendar_file)
            IN  /\ calendar' = w.cal
                /\ calendar_file' = w.calendar_file
                /\ backup_file' = w.backup_file
                /\ calendar_mtime' = calendar_mtime + 1
                /\ Exit("written")

\* the answer to "Are you sure you want to overwrite it?"
Confirm ==
    /\ pc = "confirm"
    /\ UNCHANGED <<edits, probe, probed>>
    /\ UNCHANGED <<prompt, last_call, invoked>>
    /\ \E answer \in {"y", "n", "KeyboardInterrupt"} :
          IF answer = "y"
          THEN LET w == write_calendar(calendar, calendar_file)
               IN  /\ calendar' = w.cal
                   /\ calendar_file' = w.calendar_file
                   /\ backup_file' = w.backup_file
                   /\ calendar_mtime' = calendar_mtime + 1
                   /\ Exit("written")
                   /\ UNCHANGED <<item_list, menu, declined>>
          ELSE IF answer = "n"
          THEN /\ item_list' = InitList
               /\ menu' = InitMenu
               /\ declined' = TRUE
               /\ Loop
               /\ UNCHANGED <<calendar, calendar_file, calendar_mtime, backup_file>>
          ELSE /\ Exit("KeyboardInterrupt")
               /\ UNCHANGED <<calendar, item_list, menu, calendar_file,
                              calendar_mtime, backup_file, declined>>

ShowCalendar ==
    /\ pc = "getch"
    /\ UNCHANGED <<edits, probe, probed, declined>>
    /\ Resolves("Monthly cal.")
    /\ Loop
    /\ UNCHANGED <<calendar, item_list, menu, calendar_file, calendar_mtime,
                   backup_file, prompt, last_call, invoked>>

OpenUrl ==
    /\ Calls("Browse url")
    /\ UNCHANGED <<edits, probe, probed, declined>>
    /\ Invoke("Browse url")
    /\ Loop
    /\ UNCHANGED <<calendar, menu, calendar_file, calendar_mtime, backup_file,
                   prompt, last_call>>

\* after the call r of set_view_mode in choose_view_mode
Chosen(r) ==
    /\ calendar' = r.cal
    /\ last_call' = [op |-> "set_view_mode", oracle |-> r.oracle,
                     view_exc |-> r.exc, ret |-> r.exc]
    /\ IF r.exc = ""
       THEN item_list' = top(item_list) /\ Loop
       ELSE item_list' = item_list /\ Exit(r.exc)

\* choose_view_mode: the user leaves it or chooses a view
ChooseView ==
    /\ pc = "getch"
    /\ UNCHANGED <<edits, probe, probed, declined>>
    /\ Resolves("View")
    /\ UNCHANGED <<menu, calendar_file, calendar_mtime, backup_file, prompt, invoked>>
    /\ \E chosen \in BOOLEAN :
          IF ~chosen
          THEN Loop /\ UNCHANGED <<calendar, item_list, last_call>>
          ELSE \E view \in ViewChoices, env \in OracleRuns :
                  Chosen(set_view_mode(calendar, view, env))

Delete ==
    /\ MayEdit
    /\ Calls("Done/delete")
    /\ Invoke("Done/delete")
    /\ \E env \in OracleRuns : After(delete(calendar, Selected, env), "render", "render")
    /\ UNCHANGED <<menu, calendar_file, calendar_mtime, backup_file, prompt>>

Comment ==
    /\ MayEdit
    /\ Calls("Comment")
    /\ Invoke("Comment")
    /\ \E env \in OracleRuns : After(comment(calendar, Selected, env), "render", "render")
    /\ UNCHANGED <<menu, calendar_file, calendar_mtime, backup_file, prompt>>

Advance ==
    /\ MayEdit
    /\ Calls("Advance")
    /\ Invoke("Advance")
    /\ \E env \in OracleRuns, julian_ok \in BOOLEAN :
          After(advance(calendar, Selected, env, julian_ok), "render", "render")
    /\ UNCHANGED <<menu, calendar_file, calendar_mtime, backup_file, prompt>>

Duplicate ==
    /\ MayEdit
    /\ Calls("dUplicate")
    /\ Len(calendar.calendar_lines) < MaxLines
    /\ Invoke("dUplicate")
    /\ \E env \in OracleRuns : After(duplicate(calendar, Selected, env), "render", "render")
    /\ UNCHANGED <<menu, calendar_file, calendar_mtime, backup_file, prompt>>

(***************************************************************************)
(* edit, reschedule and new: the prompts outside curses                    *)
(***************************************************************************)
\* edit up to its first my_input
Edit ==
    /\ MayEdit
    /\ Calls("Edit")
    /\ UNCHANGED <<edits, probe, probed, declined>>
    /\ Invoke("Edit")
    /\ prompt' = [selected_item |-> Selected, line |-> get_source_line(calendar, Selected),
                  what |-> <<>>, before |-> calendar.calendar_lines]
    /\ pc' = "edit"
    /\ UNCHANGED <<calendar, menu, exit_how, calendar_file, calendar_mtime,
                   backup_file, proxy_exists, last_call>>

\* a line is entered at the prompt of edit
EditInput ==
    /\ pc = "edit"
    /\ UNCHANGED <<item_list, menu, calendar_file, calendar_mtime, backup_file, invoked>>
    /\ \E typed \in EditInputs \cup {prompt.line}, env \in OracleRuns :
          IF strip(typed) = prompt.line
          THEN /\ Loop
               /\ prompt' = NoPrompt
               /\ UNCHANGED <<calendar, last_call, edits, probe, probed, declined>>
          ELSE AfterPrompt(update_source_line(calendar, prompt.selected_item,
                                              strip(typed), env), "edit")

\* reschedule up to its first my_date_input
Reschedule ==
    /\ MayEdit
    /\ Calls("Reschedule")
    /\ UNCHANGED <<edits, probe, probed, declined>>
    /\ Invoke("Reschedule")
    /\ prompt' = [selected_item |-> Selected, line |-> <<>>,
                  what |-> Format(get_event(calendar, Selected)),
                  before |-> calendar.calendar_lines]
    /\ pc' = "reschedule"
    /\ UNCHANGED <<calendar, menu, exit_how, calendar_file, calendar_mtime,
                   backup_file, proxy_exists, last_call>>

\* the text of get_YMD_date(j) in "%s , %s" % (date, what)
DateText(j, date_ok) == IF date_ok THEN YMD(j) ELSE <<"N", "o", "n", "e">>

\* a date is entered at the prompt of reschedule
RescheduleInput ==
    /\ pc = "reschedule"
    /\ UNCHANGED <<item_list, menu, calendar_file, calendar_mtime, backup_file, invoked>>
    /\ \E j \in DayChoices, date_ok \in BOOLEAN, env \in OracleRuns :
          AfterPrompt(update_source_line(calendar, prompt.selected_item,
                         DateText(j, date_ok) \o <<" ", ",", " ">> \o prompt.what, env),
                      "reschedule")

\* new up to its first my_date_input
New ==
    /\ MayEdit
    /\ pc = "getch"
    /\ UNCHANGED <<edits, probe, probed, declined>>
    /\ Resolves("New")
    /\ UNCHANGED <<calendar, item_list, menu, exit_how, calendar_file, calendar_mtime,
                   backup_file, proxy_exists, last_call, invoked>>
    /\ \E what \in NewTexts \cup {<<>>} :
          IF strip(what) = <<>>
          THEN pc' = "render" /\ prompt' = NoPrompt
          ELSE /\ pc' = "new"
               /\ prompt' = [NoPrompt EXCEPT !.what = strip(what),
                                             !.before = calendar.calendar_lines]

\* a date is entered at the prompt of new
NewInput ==
    /\ pc = "new"
    /\ Len(calendar.calendar_lines) < MaxLines
    /\ UNCHANGED <<item_list, menu, calendar_file, calendar_mtime, backup_file, invoked>>
    /\ \E j \in DayChoices, date_ok \in BOOLEAN, env \in OracleRuns :
          AfterPrompt(add_source_line(calendar,
                         DateText(j, date_ok) \o <<" ", ",", " ">> \o prompt.what, env),
                      "new")

\* Ctrl-C at a prompt (my_input returns None), or an empty date
PromptAbort ==
    /\ pc \in {"edit", "reschedule", "new"}
    /\ UNCHANGED <<edits, probe, probed, declined>>
    /\ Loop
    /\ prompt' = NoPrompt
    /\ UNCHANGED <<calendar, item_list, menu, calendar_file, calendar_mtime,
                   backup_file, last_call, invoked>>

(***************************************************************************)
(* Another process rewrites the calendar file while the program runs       *)
(***************************************************************************)
ExternalWrite ==
    /\ pc \notin {"start", "exited"}
    /\ UNCHANGED <<edits, probe, probed, declined>>
    /\ calendar_mtime < MaxTouches
    /\ calendar_file' = calendar_file \o <<"#", "\n">>
    /\ calendar_mtime' = calendar_mtime + 1
    /\ UNCHANGED <<calendar, item_list, menu, pc, exit_how, backup_file,
                   proxy_exists, prompt, last_call, invoked>>

Next ==
    \/ Start \/ Render
    \/ KeyIdle \/ KeyUp \/ KeyDown \/ KeyLeft \/ KeyRight \/ KeyInterrupt \/ KeyQuit
    \/ Confirm \/ ShowCalendar \/ OpenUrl \/ ChooseView
    \/ Delete \/ Comment \/ Advance \/ Duplicate
    \/ Edit \/ EditInput \/ Reschedule \/ RescheduleInput \/ New \/ NewInput
    \/ PromptAbort \/ ExternalWrite

Spec == Init /\ [][Next]_vars

(***************************************************************************)
(* The properties                                                          *)
(***************************************************************************)
Mutators == {"update_source_line", "delete_source_line", "add_source_line"}

Prompts == {"edit", "reschedule", "new"}

\* the step calls a mutator, and the external program reports in `modes`
MutatorCalled(modes) == last_call'.op \in Mutators /\ last_call'.oracle \in modes

\* C1: when the projection of the speculatively changed document fails
\* (the external program cannot be run, exits with a non-zero status, or
\* prints a line that begins with "*"), update_source_line,
\* delete_source_line and add_source_line return False and leave the lines
\* of the document, the modified flag, the displayed items and the
\* back-references as they were before the call.
C1_FailedProjectionRollsBack ==
    [][MutatorCalled({"not_found", "exit_nonzero", "star_first", "star_later"})
          => /\ last_call'.ret = "False"
             /\ calendar'.calendar_lines = calendar.calendar_lines
             /\ calendar'.modified = calendar.modified
             /\ calendar'.shown_items = calendar.shown_items
             /\ calendar'.line_numbers = calendar.line_numbers]_vars

\* C2: while an edit is validated, each failure of the external program (a
\* "*" at the start of its output, a non-zero exit status, the program
\* missing) is raised as InternalException: the mutator returns False with
\* the document rolled back, and the process goes on.
C2_OracleFailureIsInvalidExpression ==
    [][MutatorCalled({"star_first", "exit_nonzero", "not_found"})
          => /\ last_call'.view_exc = "InternalException"
             /\ last_call'.ret = "False"
             /\ calendar'.calendar_lines = calendar.calendar_lines
             /\ pc' # "exited"]_vars

\* the step in which write_calendar runs
Writes == calendar'.created_backup /\ ~calendar.created_backup

\* C3: the calendar file is overwritten only when a mutator has committed
\* since the load (modified is true) and, if the file's modification time
\* differs from the one stored at the load, only on the user's answer "y" to
\* the confirmation; with no committed mutation the file is never written.
C3_WriteOnlyIfModifiedAndConfirmed ==
    /\ [](calendar.modified => edits > 0)
    /\ [][Writes
            => /\ calendar.modified
               /\ edits > 0
               /\ calendar.last_modified # calendar_mtime => pc = "confirm"]_vars

C3_Witness ==
    /\ exit_how = "written"
    /\ calendar.created_backup
    /\ calendar.last_modified # calendar_mtime - 1

\* the process ends in this step in one of `ways`: "quit" and "written"
\* after the key q, "KeyboardInterrupt" after an interrupt outside a prompt
Exits(ways) == pc # "exited" /\ pc' = "exited" /\ exit_how' \in ways

\* the backup holds what the file held, the file holds the lines of the document
BackedUpAndWritten ==
    /\ calendar'.created_backup
    /\ backup_file' = calendar_file
    /\ calendar_file' = FileText(calendar.calendar_lines)
    /\ calendar'.calendar_lines = calendar.calendar_lines

C5_BackReferencesAddressLines ==
    pc # "exited"
       => /\ Len(calendar.shown_items) = Len(calendar.line_numbers)
          /\ \A k \in 1..Len(calendar.line_numbers) :
                /\ 0 <= calendar.line_numbers[k]
                /\ calendar.line_numbers[k] < Len(calendar.calendar_lines)

C5_Witness ==
    /\ pc = "render"
    /\ last_call.op = "delete_source_line"
    /\ last_call.ret = "False"
    /\ Len(calendar.line_numbers) > 0
    /\ calendar.view_mode # DefaultView

\* a run of the external program that succeeds
GoodRun == [run |-> "ok", star_first |-> FALSE]

\* the displayed items with their back-references
Displayed(cal) == [k \in 1..Len(cal.shown_items) |-> <<cal.shown_items[k], cal.line_numbers[k]>>]

RECURSIVE IsSubsequence(_, _)
IsSubsequence(a, b) ==
    IF a = <<>> THEN TRUE
    ELSE IF b = <<>> THEN FALSE
    ELSE IF Head(a) = Head(b) THEN IsSubsequence(Tail(a), Tail(b))
    ELSE IsSubsequence(a, Tail(b))

\* r is the projection of the document of cal under its view
IsProjection(cal, r) ==
    /\ r.exc = ""
    /\ cal.shown_items = r.cal.shown_items
    /\ cal.line_numbers = r.cal.line_numbers

\* the view of cal without its search pattern
Unfiltered(cal) == [cal EXCEPT !.view_mode.search_pattern = <<>>]

\* C6: whenever the loop reads a key, the displayed items and the
\* back-references are the projection of the current document under the
\* current view, in the order of the external program's output, and the
\* search pattern only removes items from them.
C6_DisplayedIsCurrentProjection ==
    pc = "getch"
       => /\ IsProjection(calendar, update_view(calendar, GoodRun))
          /\ IsSubsequence(Displayed(calendar),
                           Displayed(update_view(Unfiltered(calendar), GoodRun).cal))

C6_Witness ==
    /\ pc = "getch"
    /\ calendar.modified
    /\ calendar.view_mode.search_pattern # <<>>
    /\ calendar.shown_items # <<>>
    /\ Len(calendar.shown_items)
          < Len(update_view(Unfiltered(calendar), GoodRun).cal.shown_items)

\* C7: the projection raises InternalException whenever any line of the
\* external program's output begins with "*", not only the first.
C7_SentinelOnAnyLineFails ==
    last_call.oracle \in {"star_first", "star_later"}
       => last_call.view_exc = "InternalException"

\* C8: the predicates recreate_menu calls (happens_only_once, can_advance,
\* can_open_url) raise for no selected line: they return False instead.
C8_ClassifiersNeverRaise == last_call.op # "recreate_menu"

\* main calls a function with the selected item in this step
Dispatches == invoked'.func # "" /\ invoked.func = ""

\* func is in the menu r that recreate_menu builds for the item of inv
InMenuFor(r, inv) ==
    /\ r.exc = ""
    /\ \E k \in 1..Len(r.menu.menu) : r.menu.menu[k] = inv.func
    /\ inv.selected_item = selected_item(item_list).value
    /\ inv.func = "Done/delete"
          => happens_only_once(calendar, inv.selected_item) = "True"

\* C9: every function main calls with the selected item (Edit,
\* Done/delete, Reschedule, Comment, Advance, Browse url, dUplicate) is in
\* the menu recreate_menu builds in the same iteration for the selected
\* item and the current document; Done/delete is called only on an item
\* that happens only once.
C9_DispatchedIsInRebuiltMenu ==
    [][Dispatches => InMenuFor(recreate_menu(menu, calendar, item_list), invoked')]_vars

C9_Witness ==
    /\ invoked.func = "Advance"
    /\ last_call.ret = "True"
    /\ item_list.first_item + item_list.selected_row > 0

\* the prompt is left without a call of a mutator in this step
Aborts == pc \in Prompts /\ pc' \notin Prompts /\ last_call' = last_call

\* C10: leaving the prompt of edit, reschedule or new by an interrupt or an
\* empty date leaves the document as it was when the prompt began, also
\* after rejected attempts in the same prompt, and main goes on.
C10_AbortLeavesDocument ==
    [][Aborts
          => /\ pc' = "render"
             /\ calendar' = calendar
             /\ calendar'.calendar_lines = prompt.before]_vars

C10_Witness ==
    /\ pc = "render"
    /\ prompt = NoPrompt
    /\ invoked.func = "Reschedule"
    /\ last_call.op = "update_source_line"
    /\ last_call.ret = "False"

\* the item a mutator called in this step is given: the cursor's item for a
\* function called by main, the item the prompt began with inside a prompt
Addressed == IF pc \in Prompts THEN prompt.selected_item ELSE Selected

\* the source line (0-based) the addressed item refers back to
AddressedLine == calendar.line_numbers[Addressed + 1]

\* a mutator is called in this step and returns True
Commits(op) ==
    /\ pc \in {"getch"} \cup Prompts
    /\ pc' = "render"
    /\ last_call'.op = op
    /\ last_call'.ret = "True"

\* `after` is `before` with the line n (0-based) replaced and no other change
OnlyReplaced(before, after, n) ==
    /\ Len(after) = Len(before)
    /\ \A k \in 1..Len(before) : k # n + 1 => after[k] = before[k]

\* `after` is `before` without its line n (0-based), the others in order
OnlyRemoved(before, after, n) ==
    /\ Len(after) = Len(before) - 1
    /\ \A k \in 1..Len(after) : after[k] = IF k <= n THEN before[k] ELSE before[k + 1]

\* `after` is `before` and one more line at the end
OnlyAppended(before, after) ==
    /\ Len(after) = Len(before) + 1
    /\ \A k \in 1..Len(before) : after[k] = before[k]

\* C11: a mutator that returns True changed only what it names:
\* update_source_line (with a text that is not blank) replaced the line the
\* addressed item refers back to and kept the number of lines and every
\* other line, delete_source_line removed that line and kept the others in
\* order, add_source_line added one line at the end; each set modified.
C11_CommitChangesOnlyWhatItNames ==
    [][/\ Commits("update_source_line")
          => /\ OnlyReplaced(calendar.calendar_lines, calendar'.calendar_lines,
                             AddressedLine)
             /\ calendar'.modified
       /\ Commits("delete_source_line")
          => /\ OnlyRemoved(calendar.calendar_lines, calendar'.calendar_lines,
                            AddressedLine)
             /\ calendar'.modified
       /\ Commits("add_source_line")
          => /\ OnlyAppended(calendar.calendar_lines, calendar'.calendar_lines)
             /\ calendar'.modified]_vars

\* a line that is not the last one was deleted
C11_Witness ==
    /\ pc = "render"
    /\ last_call.op = "delete_source_line"
    /\ last_call.ret = "True"
    /\ invoked.func = "Done/delete"
    /\ calendar.calendar_lines = <<LAdv>>

\* texts that are empty or hold only whitespace
BlankTexts == {<<>>, <<" ">>, <<" ", " ">>}

\* C12: for every displayed item, every blank text and every outcome of the
\* external program, update_source_line gives the object and the result
\* that delete_source_line gives for the same item, whether the call
\* returns True, returns False or raises.
C12_BlankUpdateIsDelete ==
    pc \in {"getch", "edit"}
       => \A index \in 0..(Len(calendar.shown_items) - 1), what \in BlankTexts,
             env \in OracleRuns :
             update_source_line(calendar, index, what, env)
                = delete_source_line(calendar, index, env)

\* edit was given an empty line and the edited line is gone
C12_Witness ==
    /\ pc = "render"
    /\ invoked.func = "Edit"
    /\ last_call.op = "delete_source_line"
    /\ last_call.ret = "True"
    /\ calendar.modified

\* the lines appended in the round trip
RoundTripLines == {LOnce, LLater, LAdv}

\* the call r of delete_source_line, when it returned True, left the lines
\* of cal
Undone(cal, r) == r.call.ret = "True" => r.cal.calendar_lines = cal.calendar_lines

\* the displayed items of the object of the call `added` that refer back to
\* the line appended to cal
AppendedItems(cal, added) ==
    {i \in 0..(Len(added.cal.line_numbers) - 1) :
        added.cal.line_numbers[i + 1] = Len(cal.calendar_lines)}

\* when the call `added` of add_source_line on cal returned True, deleting
\* an item of the appended line gives back the lines of cal
RoundTrip(cal, added, env) ==
    added.call.ret = "True"
       => \A i \in AppendedItems(cal, added) :
             Undone(cal, delete_source_line(added.cal, i, env))

\* C13: add_source_line(x) followed at once by delete_source_line of an
\* item that shows the appended line, both returning True, leaves exactly
\* the lines there were before the append.
C13_AppendThenDeleteRestores ==
    pc \in {"getch", "new"}
       => \A x \in RoundTripLines, env1 \in OracleRuns, env2 \in OracleRuns :
             RoundTrip(calendar, add_source_line(calendar, x, env1), env2)

\* the round trip happens: the append commits, its line is displayed and
\* the delete commits
RoundTripHappens(cal, added, env) ==
    /\ added.call.ret = "True"
    /\ \E i \in AppendedItems(cal, added) :
          delete_source_line(added.cal, i, env).call.ret = "True"

C13_Witness ==
    /\ pc = "new"
    /\ Len(calendar.calendar_lines) = 2
    /\ calendar.view_mode = DefaultView
    /\ RoundTripHappens(calendar, add_source_line(calendar, LOnce, GoodRun), GoodRun)

\* the selection of the list l is inside its items
Clamped(l) ==
    /\ l.first_item >= 0
    /\ l.selected_row >= 0
    /\ IF l.items # <<>>
       THEN l.first_item + l.selected_row <= Len(l.items) - 1
       ELSE l.first_item = 0 /\ l.selected_row = 0

\* l after n calls of up
RECURSIVE UpTimes(_, _)
UpTimes(l, n) == IF n = 0 THEN l ELSE UpTimes(up(l), n - 1)

\* the while loop of _adjust_selected_item ends on l after at most as many
\* calls of up as the selection is far from the first item
LoopEnds(l) ==
    l.items # <<>>
       => \E n \in 0..(l.first_item + l.selected_row) :
             UpTimes(l, n).first_item + UpTimes(l, n).selected_row < Len(l.items)

\* the list as show finds it: the items of the current view, the selection
\* of the last iteration
Shown(l, cal) == [l EXCEPT !.items = cal.shown_items]

\* C14: where the selection is read it is inside the displayed items: show
\* leaves it so before recreate_menu reads it, whatever the height, and
\* main reads it so when it dispatches a key; for no item both first_item
\* and selected_row are 0; and the loop of up() ends.
C14_SelectionIsClamped ==
    /\ pc = "render"
          => /\ \A height \in 1..MaxHeight :
                   Clamped(list_show(item_list, calendar.shown_items, height))
             /\ LoopEnds(Shown(item_list, calendar))
    /\ pc \in {"getch"} \cup Prompts
          => /\ item_list.items = calendar.shown_items
             /\ Clamped(item_list)
             /\ Clamped(selected_item(item_list).list)
             /\ selected_item(item_list).value
                   = item_list.first_item + item_list.selected_row

\* the selected item was the last one and is no longer displayed
C14_Witness ==
    /\ pc = "render"
    /\ calendar.shown_items # <<>>
    /\ item_list.first_item + item_list.selected_row >= Len(calendar.shown_items)

\* the displayed menu has an item of this name
InMenu(name) == \E i \in 1..Len(menu.menu) : menu.menu[i] = name

\* the item the rebuilt menu was made for
Cursor == item_list.first_item + item_list.selected_row

\* C15: in the menu rebuilt for the selected item, Done/delete, Reschedule
\* and Comment are present exactly when the item's date expression happens
\* only once, Advance exactly when it can be advanced, Browse url exactly
\* when the displayed text of the item holds a URL, and dUplicate exactly
\* when an item is displayed.
C15_MenuFollowsPredicates ==
    pc = "getch"
       => /\ InMenu("dUplicate") <=> calendar.shown_items # <<>>
          /\ calendar.shown_items # <<>>
                => /\ InMenu("Done/delete") <=> happens_only_once(calendar, Cursor) = "True"
                   /\ InMenu("Reschedule") <=> happens_only_once(calendar, Cursor) = "True"
                   /\ InMenu("Comment") <=> happens_only_once(calendar, Cursor) = "True"
                   /\ InMenu("Advance")
                         <=> can_advance_of(get_date_expression(calendar, Cursor)) = "True"
                   /\ InMenu("Browse url")
                         <=> ContainsUrl(calendar.shown_items[Cursor + 1].text)
          /\ calendar.shown_items = <<>>
                => \A name \in {"Done/delete", "Reschedule", "Comment", "Advance",
                                "Browse url"} : ~InMenu(name)

\* the menu of an item that recurs and can be advanced
C15_Witness ==
    /\ pc = "getch"
    /\ Cursor > 0
    /\ InMenu("Advance")
    /\ ~InMenu("Comment")
    /\ InMenu("dUplicate")

\* C16 as stated: every rebuilt menu holds Edit, New, View and Monthly
\* cal., also when no item is displayed.
C16_BaseActionsAlways ==
    pc = "getch"
       => InMenu("Edit") /\ InMenu("New") /\ InMenu("View") /\ InMenu("Monthly cal.")

\* C16: every rebuilt menu holds New, View and Monthly cal., whatever the
\* item list is; it holds Edit exactly when an item is displayed.
C16_BaseActionsEditNeedsItem ==
    pc = "getch"
       => /\ InMenu("New") /\ InMenu("View") /\ InMenu("Monthly cal.")
          /\ InMenu("Edit") <=> calendar.shown_items # <<>>

\* the menu rebuilt when the view shows no item
C16_Witness ==
    /\ pc = "getch"
    /\ calendar.shown_items = <<>>
    /\ calendar.calendar_lines # <<>>
    /\ menu.menu = <<"New", "View", "Monthly cal.">>

\* the menu is rebuilt and shown in this step
Rebuilds == pc = "render" /\ pc' = "getch"

\* C17: after the menu is rebuilt, when an item with the name that was
\* highlighted before is in the new menu, that item is the highlighted one
\* and stays the remembered one; otherwise the highlight is on index 0 and
\* the item at index 0 becomes the remembered one.
C17_HighlightFollowsName ==
    [][Rebuilds
          => IF /\ menu.selected_menu_item # ""
                /\ \E i \in 1..Len(menu'.menu) : menu'.menu[i] = menu.selected_menu_item
             THEN /\ menu'.menu[menu'.selected_index + 1] = menu.selected_menu_item
                  /\ menu'.selected_menu_item = menu.selected_menu_item
             ELSE /\ menu'.selected_index = 0
                  /\ menu'.selected_menu_item = menu'.menu[1]]_vars

\* the highlight stayed on Monthly cal. in the menu rebuilt after the last
\* displayed item was deleted
C17_Witness ==
    /\ pc = "getch"
    /\ calendar.shown_items = <<>>
    /\ calendar.modified
    /\ menu.selected_menu_item = "Monthly cal."
    /\ menu.selected_index = 2

(***************************************************************************)
(* The classifiers and advance applied on their own to one text: date      *)
(* expressions and calendar lines over a small alphabet, and the examples  *)
(* below.  advance is applied to the text as the second line of a calendar *)
(* whose first line is LOnce, displayed in the default view.               *)
(***************************************************************************)
MaxProbeLen == 3

\* 'j = 5', '5 = j', '=j5', 'j=9-3', '1 2 3', '1 * 3', 'j>5 & y>2020',
\* 'j>5 & j>3', 'j>5-1', '!j>5&>j5', 'j>5|y=1', 'y>2020', and the lines
\* 'j>4 & y>2020,b', 'j>4,j>3', 'y>2020,b', 'j>4,b'; for the parser '(j>5',
\* 'j>5)', ')(', '(j>5)', '((j>5))', '(j>5) & (y>2020)', '(j - 5)<=(5 - j)%5',
\* 'j<=5', 'j>=5', 'j!=5', '!', '!j>5', '(j>5)(', 'j>5 | j=5'
ProbeExamples ==
    {<<"j", " ", "=", " ", "5">>,
     <<"5", " ", "=", " ", "j">>,
     <<"=", "j", "5">>,
     <<"j", "=", "9", "-", "3">>,
     <<"1", " ", "2", " ", "3">>,
     <<"1", " ", "*", " ", "3">>,
     <<"j", ">", "5", " ", "&", " ", "y", ">", "2", "0", "2", "0">>,
     <<"j", ">", "5", " ", "&", " ", "j", ">", "3">>,
     <<"j", ">", "5", "-", "1">>,
     <<"!", "j", ">", "5", "&", ">", "j", "5">>,
     <<"j", ">", "5", "|", "y", "=", "1">>,
     <<"y", ">", "2", "0", "2", "0">>,
     <<"j", ">", "4", " ", "&", " ", "y", ">", "2", "0", "2", "0", ",", "b">>,
     <<"j", ">", "4", ",", "j", ">", "3">>,
     <<"y", ">", "2", "0", "2", "0", ",", "b">>,
     <<"j", ">", "4", ",", "b">>,
     <<"(", "j", ">", "5">>,
     <<"j", ">", "5", ")">>,
     <<")", "(">>,
     <<"(", "j", ">", "5", ")">>,
     <<"(", "(", "j", ">", "5", ")", ")">>,
     <<"(", "j", ">", "5", ")", " ", "&", " ", "(", "y", ">", "2", "0", "2", "0", ")">>,
     <<"(", "j", " ", "-", " ", "5", ")", "<", "=", "(", "5", " ", "-", " ", "j", ")", "%", "5">>,
     <<"j", "<", "=", "5">>,
     <<"j", ">", "=", "5">>,
     <<"j", "!", "=", "5">>,
     <<"!">>,
     <<"!", "j", ">", "5">>,
     <<"(", "j", ">", "5", ")", "(">>,
     <<"j", ">", "5", " ", "|", " ", "j", "=", "5">>}

ProbeTexts ==
    (UNION {[1..n -> {"j", "=", ">", "5", "&", " "}] : n \in 0..MaxProbeLen})
       \cup ProbeExamples

PureInit ==
    /\ probe \in ProbeTexts
    /\ probed = NoProbe
    /\ calendar_file = FileText(<<LOnce, probe>>)
    /\ calendar_mtime = 0
    /\ proxy_exists = FALSE
    /\ calendar = NewCalendar(<<>>, 0)
    /\ item_list = InitList
    /\ menu = InitMenu
    /\ pc = "start"
    /\ exit_how = ""
    /\ backup_file = <<>>
    /\ prompt = NoPrompt
    /\ last_call = NoCall
    /\ invoked = NotInvoked
    /\ edits = 0
    /\ declined = FALSE

\* Calendar.parse_expression for the text probe
ParseExpression ==
    /\ probed = NoProbe
    /\ probed' = [op |-> "parse_expression", ret |-> "", lines |-> <<>>,
                  tree |-> parse_expression(probe)]
    /\ UNCHANGED <<calendar, item_list, menu, pc, exit_how, calendar_file,
                   calendar_mtime, backup_file, proxy_exists, prompt, last_call,
                   invoked, edits, probe, declined>>

\* Calendar.happens_only_once for the date expression probe
HappensOnlyOnce ==
    /\ probed = NoProbe
    /\ probed' = [op |-> "happens_only_once",
                  ret |-> happens_only_once_of(Str(probe)), lines |-> <<>>,
                  tree |-> None]
    /\ UNCHANGED <<calendar, item_list, menu, pc, exit_how, calendar_file,
                   calendar_mtime, backup_file, proxy_exists, prompt, last_call,
                   invoked, edits, probe, declined>>

\* can_advance for the date expression probe
CanAdvance ==
    /\ probed = NoProbe
    /\ probed' = [op |-> "can_advance", ret |-> can_advance_of(Str(probe)),
                  lines |-> <<>>, tree |-> None]
    /\ UNCHANGED <<calendar, item_list, menu, pc, exit_how, calendar_file,
                   calendar_mtime, backup_file, proxy_exists, prompt, last_call,
                   invoked, edits, probe, declined>>

\* the calendar of PureInit, loaded and displayed in the default view
ProbeCalendar ==
    set_view_mode(NewCalendar(calendar_file, calendar_mtime), DefaultView, GoodRun).cal

\* advance for a displayed item of the line probe, when the menu offers it
AdvanceLine ==
    /\ probed = NoProbe
    /\ \E index \in 0..(Len(ProbeCalendar.line_numbers) - 1) :
          /\ ProbeCalendar.line_numbers[index + 1] = 1
          /\ can_advance(ProbeCalendar, index) = "True"
          /\ probed' =
                [op |-> "advance",
                 ret |-> advance(ProbeCalendar, index, GoodRun, TRUE).call.ret,
                 lines |-> advance(ProbeCalendar, index, GoodRun, TRUE).cal.calendar_lines,
                 tree |-> None]
    /\ UNCHANGED <<calendar, item_list, menu, pc, exit_how, calendar_file,
                   calendar_mtime, backup_file, proxy_exists, prompt, last_call,
                   invoked, edits, probe, declined>>

PureNext == ParseExpression \/ HappensOnlyOnce \/ CanAdvance \/ AdvanceLine

PureSpec == PureInit /\ [][PureNext]_vars

\* isLiteralDate: the text does not parse and has exactly three
\* whitespace-separated tokens, none of them "*"
IsLiteralDate(d) ==
    /\ IsNone(parse_expression(d))
    /\ Len(split(d)) = 3
    /\ \A i \in 1..Len(split(d)) : split(d)[i] # <<"*">>

\* the tree is a Binary '=' node with the literal j on one side and digits
\* on the other
IsJulianEquation(t) ==
    /\ IsList(t)
    /\ Len(t.v) = 3
    /\ t.v[1] = Str(<<"=">>)
    /\ \/ t.v[2] = Str(<<"j">>) /\ IsStr(t.v[3]) /\ isdigit(t.v[3].v)
       \/ t.v[3] = Str(<<"j">>) /\ IsStr(t.v[2]) /\ isdigit(t.v[2].v)

\* C18: happens_only_once gives True for a date expression that is a
\* literal date or parses to a Binary '=' node of j and digits, and False
\* for every other one, a Literal leaf included.
C18_HappensOnlyOnceIff ==
    probed.op = "happens_only_once"
       => probed.ret = IF IsLiteralDate(probe) \/ IsJulianEquation(parse_expression(probe))
                       THEN "True" ELSE "False"

\* the tree has a Binary '>' node of var and digits at the top, or as a
\* conjunct of a chain of '&' nodes
RECURSIVE HasThresholdNode(_, _)
HasThresholdNode(t, var) ==
    /\ IsList(t)
    /\ Len(t.v) = 3
    /\ \/ /\ t.v[1] = Str(<<">">>)
          /\ t.v[2] = Str(<<var>>)
          /\ IsStr(t.v[3])
          /\ isdigit(t.v[3].v)
       \/ /\ t.v[1] = Str(<<"&">>)
          /\ HasThresholdNode(t.v[2], var) \/ HasThresholdNode(t.v[3], var)

\* isAdvanceable as C19 defines it
IsAdvanceable(d) ==
    /\ variable_to_replace(d) # ""
    /\ ~IsNone(parse_expression(d))
    /\ HasThresholdNode(parse_expression(d), variable_to_replace(d))

\* C19: can_advance gives True for a date expression that has a variable
\* to replace (j for exactly one 'j > N', else y for exactly one 'y > N'),
\* parses, and has the Binary '>' node of that variable and digits at the
\* top or as a conjunct of '&' nodes; it gives False for every other one.
C19_CanAdvanceIff ==
    probed.op = "can_advance"
       => probed.ret = IF IsAdvanceable(probe) THEN "True" ELSE "False"

\* the position of the first comma of the line
FirstComma(line) ==
    CHOOSE p \in 1..Len(line) : line[p] = "," /\ \A h \in 1..(p - 1) : line[h] # ","

\* the new ordinal advance writes for the variable: the day, or the year,
\* of the displayed occurrence
NewOrdinal(var) == IF var = "j" THEN Digits(Today) ELSE ListingYear(Today)

\* the line with the threshold clause of var in its date expression set to
\* <var>>M, and everything from the first comma on as it was
ClauseAdvanced(line, var) ==
    re_sub(SubSeq(line, 1, FirstComma(line) - 1), var, <<var, ">">> \o NewOrdinal(var), 1)
       \o From(line, FirstComma(line) - 1)

\* C20: advance that commits rewrote only the threshold clause of the
\* line's date expression to <var>>M; the event text after the comma, the
\* other clauses and the other line of the calendar are as they were, also
\* when the event text holds text of the form <var> > N.
C20_AdvanceRewritesOnlyTheClause ==
    probed.op = "advance" /\ probed.ret = "True"
       => probed.lines
             = <<LOnce, ClauseAdvanced(probe, variable_to_replace(
                                                 get_date_expression_of(probe).v))>>

\* the parenthesis depth of s after its first i characters
RECURSIVE Depth(_, _)
Depth(s, i) ==
    IF i = 0 THEN 0
    ELSE Depth(s, i - 1) + (IF s[i] = "(" THEN 1 ELSE IF s[i] = ")" THEN -1 ELSE 0)

\* the depth goes negative at some point or is not zero at the end
Unbalanced(s) == (\E i \in 1..Len(s) : Depth(s, i) < 0) \/ Depth(s, Len(s)) # 0

\* the date expression of the line, the text before its first comma, is
\* unbalanced
UnbalancedDate(line) ==
    /\ \E p \in 1..Len(line) : line[p] = ","
    /\ Unbalanced(SubSeq(line, 1, FirstComma(line) - 1))

\* the first part of C21: parse_expression gives None for every text whose
\* parenthesis depth goes negative or does not end at zero
ParseFailsOnUnbalanced ==
    probed.op = "parse_expression" /\ Unbalanced(probe) => IsNone(probed.tree)

\* C21: a text whose date expression has unbalanced parentheses is never
\* committed by update_source_line: the calendar, which starts without such
\* a line, never holds one, and the call that was given it returned False.
C21_UnbalancedNeverCommitted ==
    /\ \A i \in 1..Len(calendar.calendar_lines) :
          ~UnbalancedDate(calendar.calendar_lines[i])
    /\ pc = "edit" /\ last_call.op = "update_source_line" => last_call.ret = "False"

\* the two values of parse_expression are the same tree
RECURSIVE SameTree(_, _)
SameTree(a, b) ==
    /\ a.k = b.k
    /\ CASE a.k = "none" -> TRUE
         [] a.k = "str" -> a.v = b.v
         [] a.k = "list" -> /\ Len(a.v) = Len(b.v)
                            /\ \A i \in 1..Len(a.v) : SameTree(a.v[i], b.v[i])

\* the first "(" of t is matched by its last ")"
OuterMatched(t) ==
    /\ t[1] = "("
    /\ t[Len(t)] = ")"
    /\ \A i \in 1..(Len(t) - 1) : Depth(t, i) > 0
    /\ Depth(t, Len(t)) = 0

\* what C22 says of the well-nested text t that begins with "(" and ends
\* with ")": stripped and parsed again when the two match, split on its
\* operators when they do not
StripsOnlyMatched(t, tree) ==
    (~Unbalanced(t) /\ Len(t) > 2 /\ t[1] = "(" /\ t[Len(t)] = ")")
       => SameTree(tree, IF OuterMatched(t)
                          THEN parse_expression(SubSeq(t, 2, Len(t) - 1))
                          ELSE parse_ops(t, 1))

\* C22: parse_expression strips the outer parentheses and recurses only
\* when the first "(" of the trimmed text is matched by its last ")"; a
\* well-nested text that begins with "(" and ends with ")" without the two
\* matching, as '(j>5) & (y>2020)', is split on its operators.
C22_StripsOnlyMatchingParentheses ==
    probed.op = "parse_expression" => StripsOnlyMatched(strip(probe), probed.tree)

\* the for loop of parse_expression as C23 describes it, from the k-th
\* operator on: the right side begins after the whole operator, and a
\* failing side, of "!" too, passes on to the next operator
RECURSIVE SplitsAtWholeOperator(_, _)
SplitsAtWholeOperator(text, k) ==
    IF k > Len(Operators)
    THEN IF ~Contains(text, <<" ">>) THEN Str(text) ELSE None
    ELSE IF ~Contains(text, Operators[k]) THEN SplitsAtWholeOperator(text, k + 1)
    ELSE IF Operators[k] = <<"!">>
    THEN IF Truthy(parse_expression(From(text, 1)))
         THEN List(<<Str(Operators[k]), parse_expression(From(text, 1))>>)
         ELSE SplitsAtWholeOperator(text, k + 1)
    ELSE IF /\ Truthy(parse_expression(Slice(text, 0, index_of(text, Operators[k]))))
            /\ Truthy(parse_expression(From(text, index_of(text, Operators[k])
                                                     + Len(Operators[k]))))
    THEN List(<<Str(Operators[k]),
                parse_expression(Slice(text, 0, index_of(text, Operators[k]))),
                parse_expression(From(text, index_of(text, Operators[k])
                                               + Len(Operators[k])))>>)
    ELSE SplitsAtWholeOperator(text, k + 1)

\* the well-nested text t is not one whose outer parentheses are stripped
SplitOnOperators(t) ==
    ~Unbalanced(t) /\ ~(Len(t) > 2 /\ t[1] = "(" /\ t[Len(t)] = ")")

\* C23: for the first operator of the list whose two sides parse,
\* parse_expression returns the node of the operator, the text before its
\* leftmost occurrence and the text after the whole operator, two-character
\* operators included; an operator one of whose sides fails, "!" included,
\* passes on to the next operator of the list.
C23_SplitsAtWholeOperator ==
    probed.op = "parse_expression" /\ SplitOnOperators(strip(probe))
       => SameTree(probed.tree, SplitsAtWholeOperator(strip(probe), 1))

(***************************************************************************)
(* List.down applied on its own to every list the program can hold: up to  *)
(* MaxItems items, a height up to MaxViewport, and a selection inside the  *)
(* items (the row may lie below a height that has shrunk).                 *)
(***************************************************************************)
MaxItems == 6

MaxViewport == 3

ListInit ==
    /\ \E n \in 0..MaxItems, h \in 1..MaxViewport, f \in 0..MaxItems,
          r \in 0..(MaxViewport - 1) :
          /\ IF n = 0 THEN f = 0 /\ r = 0 ELSE f + r <= n - 1
          /\ item_list = [items |-> [i \in 1..n |-> [text |-> <<"a">>, day |-> Today]],
                          first_item |-> f, selected_row |-> r, height |-> h]
    /\ calendar_file = <<>>
    /\ calendar_mtime = 0
    /\ proxy_exists = FALSE
    /\ calendar = NewCalendar(<<>>, 0)
    /\ menu = InitMenu
    /\ pc = "start"
    /\ exit_how = ""
    /\ backup_file = <<>>
    /\ prompt = NoPrompt
    /\ last_call = NoCall
    /\ invoked = NotInvoked
    /\ edits = 0
    /\ declined = FALSE
    /\ probe = <<>>
    /\ probed = NoProbe

\* KEY_DOWN: item_list.down()
ListDown ==
    /\ item_list' = down(item_list)
    /\ probed' = [NoProbe EXCEPT !.op = "down"]
    /\ UNCHANGED <<calendar, menu, pc, exit_how, calendar_file, calendar_mtime,
                   backup_file, proxy_exists, prompt, last_call, invoked, edits, probe,
                   declined>>

ListSpec == ListInit /\ [][ListDown]_vars

\* the list has n items, height h, first item f and selected row r
ListIs(l, n, h, f, r) ==
    Len(l.items) = n /\ l.height = h /\ l.first_item = f /\ l.selected_row = r

\* C24: down changes nothing when the list is empty or the selection is the
\* last item; otherwise it adds one to selected_row when selected_row <
\* height - 1 and one to first_item otherwise, so the selected index grows
\* by one; with height 3 and 5 items, from (0,2) it gives (1,2), then
\* (2,2), then no change.
C24_DownMovesByOne ==
    [][/\ IF \/ item_list.items = <<>>
             \/ item_list.first_item + item_list.selected_row = Len(item_list.items) - 1
          THEN item_list' = item_list
          ELSE /\ item_list'.items = item_list.items
               /\ item_list'.height = item_list.height
               /\ IF item_list.selected_row < item_list.height - 1
                  THEN /\ item_list'.selected_row = item_list.selected_row + 1
                       /\ item_list'.first_item = item_list.first_item
                  ELSE /\ item_list'.selected_row = item_list.selected_row
                       /\ item_list'.first_item = item_list.first_item + 1
               /\ item_list'.first_item + item_list'.selected_row
                     = item_list.first_item + item_list.selected_row + 1
       /\ ListIs(item_list, 5, 3, 0, 2) => ListIs(item_list', 5, 3, 1, 2)
       /\ ListIs(item_list, 5, 3, 1, 2) => ListIs(item_list', 5, 3, 2, 2)
       /\ ListIs(item_list, 5, 3, 2, 2) => ListIs(item_list', 5, 3, 2, 2)]_vars

\* down has arrived at the last of 5 items in a viewport of height 3
C24_Witness == probed.op = "down" /\ ListIs(item_list, 5, 3, 2, 2)

\* the key without its case
LowerKey(key) ==
    IF \E k \in {"e", "d", "r", "c", "a", "b", "u", "n", "v", "m"} : Upper(k) = key
    THEN CHOOSE k \in {"e", "d", "r", "c", "a", "b", "u", "n", "v", "m"} : Upper(k) = key
    ELSE key

\* the items of the displayed menu the key belongs to
BoundTo(key) ==
    {name \in {menu.menu[i] : i \in 1..Len(menu.menu)} : LowerKey(key) \in ItemKeys(name)}

\* C25: at getch, the space key resolves to the item whose name is
\* highlighted, an item of the menu built in this iteration; any other key
\* resolves to the item of this menu it is bound to, whatever the case of a
\* letter, and to None when it is bound to no item of this menu.
C25_KeysResolveInCurrentMenu ==
    pc = "getch"
       => /\ get_selected_item(menu, "SPACE") = menu.menu[menu.selected_index + 1]
          /\ InMenu(get_selected_item(menu, "SPACE"))
          /\ \A key \in MenuKeys \ {"SPACE"} :
                IF BoundTo(key) = {} THEN get_selected_item(menu, key) = ""
                ELSE BoundTo(key) = {get_selected_item(menu, key)}

\* the keys of Done/delete resolve to nothing in the menu of an item that
\* recurs, after a menu that had them, and space resolves to dUplicate
C25_Witness ==
    /\ pc = "getch"
    /\ get_selected_item(menu, "D") = ""
    /\ get_selected_item(menu, "A") = "Advance"
    /\ get_selected_item(menu, "SPACE") = "dUplicate"
    /\ Cursor > 0

\* the highlight of m is on an item of m and the remembered item is that one
Highlighted(m) ==
    /\ m.selected_index \in 0..(Len(m.menu) - 1)
    /\ m.selected_menu_item = m.menu[m.selected_index + 1]

\* m2 is m with the highlight moved by `by`
Moved(m, m2, by) ==
    /\ m2.menu = m.menu
    /\ m2.key_bindings = m.key_bindings
    /\ m2.selected_index = m.selected_index + by
    /\ Highlighted(m2)

\* C26: left and right move the highlight of the displayed menu by one and
\* not round its ends: left on the first item and right on the last one
\* leave it where it is; from the menu shown until the next rebuild the
\* highlight is inside the menu and the remembered item is the highlighted
\* one.
C26_LeftRightMoveByOne ==
    /\ pc = "getch"
          => /\ Moved(menu, left(menu), IF menu.selected_index = 0 THEN 0 ELSE -1)
             /\ Moved(menu, right(menu),
                      IF menu.selected_index = Len(menu.menu) - 1 THEN 0 ELSE 1)
    /\ pc \in {"getch", "render", "confirm"} \cup Prompts /\ menu # InitMenu
          => Highlighted(menu)

\* right has brought the highlight to the last item of the menu
C26_Witness ==
    /\ pc = "render"
    /\ menu.selected_index = Len(menu.menu) - 1
    /\ Len(menu.menu) >= 8
    /\ ~calendar.modified
    /\ invoked = NotInvoked

\* the step that ends the program
Terminates == pc # "exited" /\ pc' = "exited"

\* the program ends by the confirmed write or by an interrupt with no write
EndsByConfirmOrInterrupt ==
    \/ pc = "confirm" /\ Writes /\ exit_how' = "written"
    \/ /\ exit_how' = "KeyboardInterrupt"
       /\ calendar_file' = calendar_file
       /\ backup_file' = backup_file

\* C27: when the conflict is detected at the exit and the user does not
\* confirm, the file is not written, the document and its modified flag are
\* kept and the loop is entered again; from then on the document stays
\* modified, the conflict stands, and the program ends only by the confirmed
\* write or by an interrupt without a write.
C27_DeclinedConflictKeepsRunning ==
    /\ [][pc = "confirm" /\ ~Terminates
            => /\ calendar.modified
               /\ calendar' = calendar
               /\ calendar_file' = calendar_file
               /\ backup_file' = backup_file
               /\ pc' = "render"
               /\ declined']_vars
    /\ [](declined /\ pc # "exited"
            => calendar.modified /\ conflicting_changes(calendar, calendar_mtime))
    /\ [][declined /\ Terminates => EndsByConfirmOrInterrupt]_vars

\* the run was refused at its start because the proxy calendar existed
Refused == pc = "exited" /\ exit_how = "SystemExit"

\* C28: the start is refused while the proxy calendar exists, and a run that
\* has created the proxy calendar has removed it when the process has ended,
\* however it ended, the failure of the first set_view_mode included.
C28_ProxyRemovedOnEveryExit ==
    /\ Refused => proxy_exists /\ calendar = NewCalendar(<<>>, 0)
    /\ pc = "exited" /\ ~Refused => ~proxy_exists

\* C29: when the list has been drawn with a viewport of at least one row,
\* selected_row is a row of the viewport, also when the viewport has become
\* smaller since the list was drawn before.
C29_SelectedRowInsideViewport ==
    pc = "getch" /\ item_list.height >= 1
       => item_list.selected_row \in 0..(item_list.height - 1)

====
